---- MODULE Spec2Model ----
(***************************************************************************)
(* State-machine model of the depthtection node (class Depthtection):      *)
(* the message handlers of src/src/depthtection.cpp and of                 *)
(* src/include/depthtection/depthtection.hpp, one action per handler.      *)
(*                                                                         *)
(* Lengths are integers counting tenths of the source's distance unit, so  *)
(* the source's 0.5 is 5 and its 1 is 10; Euclidean norms are compared by  *)
(* their squares.  A non-finite float (NaN or infinity) is the value       *)
(* FLT_INF.  Handlers run to completion one at a time (single-threaded     *)
(* executor), so every handler is one atomic action.                       *)
(***************************************************************************)
EXTENDS Integers, Sequences, FiniteSets, TLC

\* ------------------------------------------------------------- constants

\* enum Phase
NO_DETECTION == "NO_DETECTION"
VISUAL_DETECTION_WITHOUT_DEPTH == "VISUAL_DETECTION_WITHOUT_DEPTH"
VISUAL_DETECTION_WITH_DEPTH == "VISUAL_DETECTION_WITH_DEPTH"
ONLY_DEPTH_DETECTION == "ONLY_DEPTH_DETECTION"
TOO_NEAR_TO_DETECT == "TOO_NEAR_TO_DETECT"
Phase ==
  { NO_DETECTION, VISUAL_DETECTION_WITHOUT_DEPTH, VISUAL_DETECTION_WITH_DEPTH,
    ONLY_DEPTH_DETECTION, TOO_NEAR_TO_DETECT }

\* std::numeric_limits<float>::infinity(); also stands for any non-finite float
FLT_INF == 1000
\* radius of the sphere around the best candidate (0.5), in tenths
FILTER_RADIUS == 5
\* minimum size of the filtered cloud
MIN_POINTS == 20
\* distance under which the vehicle is too near (0.5), in tenths
NEAR_DISTANCE == 5
\* threshold handed to match_candidate (1), in tenths
MATCH_THRESHOLD == 10

\* the class detections are compared with: a std::string no code assigns
target_detection_ == ""

\* ---------------------------------------------------------------- bounds

\* cap of the counter n_images_without_detection_
MaxImagesWithoutDetection == 1
\* confidences are followed through this many halvings: scores are multiples
\* of 1/ScoreOne, and ScoreOne is the score 1.0
MaxHalvings == 2
ScoreOne == 2 ^ MaxHalvings

\* ------------------------------------------------------------ input sets

Vec(x, y, z) == [x |-> x, y |-> y, z |-> z]

\* camera_info messages: the intrinsics read from K (fx, fy, cx, cy)
Calibs ==
  { [fx |-> 1, fy |-> 1, cx |-> 0, cy |-> 0],
    [fx |-> 1, fy |-> 2, cx |-> 0, cy |-> 0] }
\* an empty cv::Mat
EmptyMat == <<>>
\* depth frames: one row of float samples, indexed from pixel x = 0
DepthFrames == { <<4, 0, FLT_INF, 4>> }
\* the values a read outside a depth map can yield
DepthValues == {0, 4}
\* a detection: class of results[0], its score (in 1/ScoreOne), the bbox
\* centre (x, y = 0)
Detection(c, s, x) == [class_id |-> c, score |-> s, center_x |-> x]
\* colour frames
RgbFrames == { <<1>> }
\* translations of the sensor -> "earth" transform the tf buffer can hold
\* (rotation: identity)
Translations == { Vec(0, 0, 1) }
\* translations of the base_frame_ -> "earth" transform: the vehicle's position
VehiclePositions == { Vec(0, 0, 4) }
\* ground-truth poses
GroundTruths == { Vec(0, 0, 5) }
\* points of a cloud, in the sensor frame
NaNPoint == Vec(FLT_INF, 0, 0)
\* clouds: MIN_POINTS - 1 points at one place followed by one more point
Cloud(p, q) == [bulk |-> p, last |-> q]
Clouds ==
  { Cloud(Vec(0, 0, 4), Vec(0, 0, 4)), Cloud(Vec(0, 0, 4), Vec(0, 0, 14)),
    Cloud(Vec(0, 0, 4), NaNPoint), Cloud(Vec(0, 0, 4), Vec(0, 0, 8)),
    Cloud(Vec(3, 0, 8), Vec(0, 0, 8)), Cloud(NaNPoint, NaNPoint) }
PointsOf(cloud) == [i \in 1..MIN_POINTS |-> IF i < MIN_POINTS THEN cloud.bulk ELSE cloud.last]
\* header.stamp of a cloud
Stamps == { 1 }

\* ------------------------------------------------------- pure functions

Range(s) == { s[i] : i \in 1..Len(s) }

IsFinite(c) == c # FLT_INF
\* float addition: a non-finite operand gives a non-finite sum
AddF(a, b) == IF IsFinite(a) /\ IsFinite(b) THEN a + b ELSE FLT_INF
\* transform * v, for a transform that is a translation
Apply(tf, v) == Vec(AddF(v.x, tf.x), AddF(v.y, tf.y), AddF(v.z, tf.z))
\* the square of (p - q).norm()
Norm2(p, q) ==
  (p.x - q.x) * (p.x - q.x) + (p.y - q.y) * (p.y - q.y) + (p.z - q.z) * (p.z - q.z)

\* depth_img.at<float>(point.y, point.x): the sample when the pixel lies in the
\* map; a read outside the map (or of an empty map) is undefined, and yields
\* whatever `wild` holds
InMap(depth_img, px) == 0 <= px /\ px < Len(depth_img)
DepthAt(depth_img, px, wild) ==
  IF InMap(depth_img, px) THEN depth_img[px + 1] ELSE wild

NoMeasurement(depth) == depth = 0 \/ depth = FLT_INF

\* get_point_from_depth, from the sample on: the sentinel (0, 0, 0) for a
\* sample of 0 or infinity, else the pinhole back-projection (row y = 0)
get_point_from_depth(depth, px, K) ==
  IF NoMeasurement(depth) THEN Vec(0, 0, 0)
  ELSE Vec(((px - K.cx) * depth) \div K.fx, ((0 - K.cy) * depth) \div K.fy, depth)

\* ----------------------------------------------------------------- state

VARIABLES
  current_phase_,               \* enum Phase
  haveCalibration_,             \* bool
  K_,                           \* cv::Mat: EmptyMat, or <<k>> holding the intrinsics k
  rgb_img_,                     \* cv::Mat: EmptyMat or a frame
  depth_img_,                   \* cv::Mat: EmptyMat or a row of samples
  candidates_,                  \* std::vector<Candidate::Ptr>
  best_candidate_,              \* Candidate::Ptr: 0 (null) or an index of candidates_
  n_images_without_detection_,  \* int
  new_detection_,               \* bool
  has_ground_truth_,            \* bool
  ground_truth_pose_msg_,       \* position of the last ground-truth pose
  terminated,                   \* the process ended abnormally (signal, uncaught exception)
  handler,                      \* history: the handler invoked last
  msg,                          \* history: its message and what the environment answered
  trace,                        \* history: the steps it took
  cloud_filtered_pub            \* history: what it published on "cloud_filtered"

vars ==
  << current_phase_, haveCalibration_, K_, rgb_img_, depth_img_, candidates_,
     best_candidate_, n_images_without_detection_, new_detection_,
     has_ground_truth_, ground_truth_pose_msg_, terminated, handler, msg, trace,
     cloud_filtered_pub >>

\* the members a handler can change, without the history
program ==
  << current_phase_, haveCalibration_, K_, rgb_img_, depth_img_, candidates_,
     best_candidate_, n_images_without_detection_, new_detection_,
     has_ground_truth_, ground_truth_pose_msg_ >>

\* Depthtection::Depthtection and the in-class initializers.  The constructor
\* assigns neither current_phase_ nor haveCalibration_: both start with
\* whatever the allocation held.
Init ==
  /\ current_phase_ \in Phase
  /\ haveCalibration_ \in BOOLEAN
  /\ K_ = EmptyMat
  /\ rgb_img_ = EmptyMat
  /\ depth_img_ = EmptyMat
  /\ candidates_ = <<>>
  /\ best_candidate_ = 0
  /\ n_images_without_detection_ = 0
  /\ new_detection_ = FALSE
  /\ has_ground_truth_ = FALSE
  /\ ground_truth_pose_msg_ = Vec(0, 0, 0)
  /\ terminated = FALSE
  /\ handler = "constructor"
  /\ msg = [none |-> TRUE]
  /\ trace = <<>>
  /\ cloud_filtered_pub = <<>>

\* what every handler invocation records
Invoked(name, m, steps, pub) ==
  /\ handler' = name
  /\ msg' = m
  /\ trace' = steps
  /\ cloud_filtered_pub' = pub

\* ------------------------------------------------------- simple handlers

rgbImageCallback ==
  \E img \in RgbFrames :
    /\ ~terminated
    /\ rgb_img_' = img
    /\ Invoked("rgbImageCallback", [image |-> img], <<>>, <<>>)
    /\ UNCHANGED << current_phase_, haveCalibration_, K_, depth_img_, candidates_,
                    best_candidate_, n_images_without_detection_, new_detection_,
                    has_ground_truth_, ground_truth_pose_msg_, terminated >>

depthImageCallback ==
  \E img \in DepthFrames :
    /\ ~terminated
    /\ depth_img_' = img
    /\ Invoked("depthImageCallback", [image |-> img], <<>>, <<>>)
    /\ UNCHANGED << current_phase_, haveCalibration_, K_, rgb_img_, candidates_,
                    best_candidate_, n_images_without_detection_, new_detection_,
                    has_ground_truth_, ground_truth_pose_msg_, terminated >>

\* a message that is ignored is given one value, another one than the stored
CalibInputs ==
  IF ~haveCalibration_ THEN Calibs
  ELSE { CHOOSE k \in Calibs : K_ = EmptyMat \/ k # K_[1] }

cameraInfoCallback ==
  \E k \in CalibInputs :
    /\ ~terminated
    /\ IF ~haveCalibration_
         THEN K_' = <<k>> /\ haveCalibration_' = TRUE
         ELSE UNCHANGED << K_, haveCalibration_ >>
    /\ Invoked("cameraInfoCallback", [k |-> k], <<>>, <<>>)
    /\ UNCHANGED << current_phase_, rgb_img_, depth_img_, candidates_,
                    best_candidate_, n_images_without_detection_, new_detection_,
                    has_ground_truth_, ground_truth_pose_msg_, terminated >>

groundTruthCallback ==
  \E pose \in GroundTruths :
    /\ ~terminated
    /\ has_ground_truth_' = TRUE
    /\ ground_truth_pose_msg_' = pose
    /\ Invoked("groundTruthCallback", [pose |-> pose], <<>>, <<>>)
    /\ UNCHANGED << current_phase_, haveCalibration_, K_, rgb_img_, depth_img_,
                    candidates_, best_candidate_, n_images_without_detection_,
                    new_detection_, terminated >>

\* ------------------------------------------------- candidates (candidate.hpp)

\* Candidate(id, score, class_name, point)
Candidate(id, score, class_name, point) ==
  [id |-> id, confidence |-> score, class_name |-> class_name, point |-> point]

\* candidate->getEigen(): the candidate's position
getEigen(candidate) == candidate.point

RECURSIVE FirstMatch(_, _, _, _, _)
FirstMatch(candidates, class_id, point, threshold, i) ==
  IF i > Len(candidates) THEN 0
  ELSE IF /\ candidates[i].class_name = class_id
          /\ Norm2(getEigen(candidates[i]), point) < threshold * threshold
       THEN i
       ELSE FirstMatch(candidates, class_id, point, threshold, i + 1)

\* match_candidate: the first stored candidate of the class whose position is
\* nearer to the point than the threshold, as an index; 0 (null) when none is
match_candidate(candidates, class_id, point, threshold) ==
  FirstMatch(candidates, class_id, point, threshold, 1)

\* the best candidate: the most confident one, the lowest id among equals;
\* 0 (null) while the store is empty
selectBestCandidate(candidates) ==
  IF candidates = <<>> THEN 0
  ELSE CHOOSE i \in 1..Len(candidates) :
         \A j \in 1..Len(candidates) :
           \/ candidates[j].confidence < candidates[i].confidence
           \/ /\ candidates[j].confidence = candidates[i].confidence
              /\ candidates[i].id <= candidates[j].id

\* ------------------------------------------------------ detectionCallback

\* The state of one run of a handler: the store as changed so far, the steps
\* taken, how the run stands ("run", "return", or "terminate" for a run the
\* process does not survive), and whether every average taken so far is a
\* multiple of 1/ScoreOne (the handlers stop taking
\* detections that would need a finer one).
Start(candidates) ==
  [candidates |-> candidates, trace |-> <<>>, status |-> "run", exact |-> TRUE]
Step(st, what) == [st EXCEPT !.trace = Append(@, what)]
Leave(st, what, how) == [st EXCEPT !.trace = Append(@, what), !.status = how]

\* mutant: the matched candidate takes the new score instead of the average
MatchOrCreateNoAverage(st, hypothesis, point) ==
  LET i == match_candidate(st.candidates, hypothesis.class_id, point, MATCH_THRESHOLD)
  IN IF i = 0
     THEN [st EXCEPT
             !.candidates =
               Append(@, Candidate(Len(@) + 1, hypothesis.score, hypothesis.class_id, point)),
             !.trace = Append(@, "emplace_back: New candidate")]
     ELSE [st EXCEPT
             !.candidates[i].confidence = hypothesis.score,
             !.candidates[i].point = point,
             !.trace = Append(@, "assign: Update candidate")]

\* mutant: the id of a new candidate is size() instead of size() + 1
MatchOrCreateIdFromSize(st, hypothesis, point) ==
  LET i == match_candidate(st.candidates, hypothesis.class_id, point, MATCH_THRESHOLD)
  IN IF i = 0
     THEN [st EXCEPT
             !.candidates =
               Append(@, Candidate(Len(@), hypothesis.score, hypothesis.class_id, point)),
             !.trace = Append(@, "emplace_back: New candidate")]
     ELSE [st EXCEPT
             !.candidates[i].confidence = (@ + hypothesis.score) \div 2,
             !.candidates[i].point = point,
             !.exact = @ /\ (st.candidates[i].confidence + hypothesis.score) % 2 = 0,
             !.trace = Append(@, "assign: Update candidate")]

\* lines 151-163: update the matching candidate, or store a new one
MatchOrCreate(st, hypothesis, point) ==
  LET i == match_candidate(st.candidates, hypothesis.class_id, point, MATCH_THRESHOLD)
  IN IF i = 0
     THEN [st EXCEPT
             !.candidates =
               Append(@, Candidate(Len(@) + 1, hypothesis.score, hypothesis.class_id, point)),
             !.trace = Append(@, "emplace_back: New candidate")]
     ELSE [st EXCEPT
             !.candidates[i].confidence = (@ + hypothesis.score) \div 2,
             !.candidates[i].point = point,
             !.exact = @ /\ (st.candidates[i].confidence + hypothesis.score) % 2 = 0,
             !.trace = Append(@, "assign: Update candidate")]

\* line 128: the test that skips the detection and leaves the handler
NoCalibrationAvailable(depth_img) == depth_img # EmptyMat \/ ~haveCalibration_

\* What the environment answers while one detection is handled: whether the
\* lookup of "earth" <- header.frame_id succeeds and with which translation,
\* and what the undefined reads give: a fault that ends the process, or a
\* depth sample and intrinsics of any value.
Wild(fault, depth, k) == [fault |-> fault, depth |-> depth, k |-> k]
NoWild == Wild(FALSE, 0, CHOOSE k \in Calibs : TRUE)
Env(tf_ok, tf, wild) == [tf_ok |-> tf_ok, tf |-> tf, wild |-> wild]
NoEnv == Env(TRUE, CHOOSE t \in Translations : TRUE, NoWild)

\* mutant: the comparison with target_detection_ is left out
detectionLoopBodyAnyClass(st, depth_img, detection, env) ==
  IF st.status # "run" THEN st
  ELSE IF NoCalibrationAvailable(depth_img)
    THEN Leave(st, "return: No camera calibration available", "return")
  ELSE
    LET px == detection.center_x
        depth == DepthAt(depth_img, px, env.wild.depth)
        undefinedRead ==
          \/ ~InMap(depth_img, px)
          \/ ~NoMeasurement(depth) /\ K_ = EmptyMat
        K == IF K_ = EmptyMat THEN env.wild.k ELSE K_[1]
        read == Step(Step(st, "info: Detection"), "read: depth_img")
    IN IF undefinedRead /\ env.wild.fault THEN Leave(read, "fault: read outside the map", "terminate")
       ELSE IF ~env.tf_ok THEN Leave(read, "catch: TransformException", "return")
       ELSE MatchOrCreate(read, detection, Apply(env.tf, get_point_from_depth(depth, px, K)))

\* lines 112-164, one pass of the loop
detectionLoopBody(st, depth_img, detection, env) ==
  IF st.status # "run" THEN st
  ELSE IF detection.class_id # target_detection_ THEN st
  ELSE IF NoCalibrationAvailable(depth_img)
    THEN Leave(st, "return: No camera calibration available", "return")
  ELSE
    LET px == detection.center_x
        depth == DepthAt(depth_img, px, env.wild.depth)
        undefinedRead ==
          \/ ~InMap(depth_img, px)
          \/ ~NoMeasurement(depth) /\ K_ = EmptyMat
        K == IF K_ = EmptyMat THEN env.wild.k ELSE K_[1]
        read == Step(Step(st, "info: Detection"), "read: depth_img")
    IN IF undefinedRead /\ env.wild.fault THEN Leave(read, "fault: read outside the map", "terminate")
       ELSE IF ~env.tf_ok THEN Leave(read, "catch: TransformException", "return")
       ELSE MatchOrCreate(read, detection, Apply(env.tf, get_point_from_depth(depth, px, K)))

RECURSIVE detectionLoop(_, _, _, _)
detectionLoop(st, depth_img, detections, envs) ==
  IF detections = <<>> THEN st
  ELSE detectionLoop(detectionLoopBody(st, depth_img, Head(detections), Head(envs)),
                     depth_img, Tail(detections), Tail(envs))

\* lines 105-169, for the frames held when the handler runs
detectionRun(rgb_img, depth_img, detections, envs) ==
  IF rgb_img = EmptyMat
  THEN Leave(Start(candidates_), "return: No RGB image available", "return")
  ELSE detectionLoop(Start(candidates_), depth_img, detections, envs)

\* detection messages: one or two detections
TwoDetections ==
  << Detection(target_detection_, ScoreOne, 0), Detection(target_detection_, ScoreOne \div 2, 3) >>
DetectionMsgs ==
  { << Detection(target_detection_, ScoreOne, 0) >>,
    << Detection(target_detection_, ScoreOne \div 2, 0) >>,
    << Detection("person", ScoreOne, 0) >>,
    TwoDetections }

\* The messages and answers that make a difference in the present state: a
\* handler that leaves before it looks at a detection, or at the first
\* detection of the target class, is given one message, and a lookup or a read
\* it does not reach is given one answer.
WildsOf(depth_img, detection) ==
  IF InMap(depth_img, detection.center_x) /\ K_ # EmptyMat THEN { NoWild }
  ELSE { Wild(TRUE, 0, NoWild.k) }
       \cup { Wild(FALSE, d, k) : d \in DepthValues,
                                  k \in IF K_ = EmptyMat THEN Calibs ELSE { K_[1] } }
EnvsOf(depth_img, detection) ==
  IF detection.class_id # target_detection_ \/ NoCalibrationAvailable(depth_img)
  THEN { NoEnv }
  ELSE { Env(FALSE, NoEnv.tf, wild) :
           wild \in { w \in WildsOf(depth_img, detection) : ~w.fault /\ w.depth = 0 } }
       \cup { Env(TRUE, NoEnv.tf, wild) :
                wild \in { w \in WildsOf(depth_img, detection) : w.fault } }
       \cup { Env(TRUE, tf, wild) :
                tf \in Translations,
                wild \in { w \in WildsOf(depth_img, detection) : ~w.fault } }

\* the handler leaves at a fault or at a failed lookup
Leaves(env) == env.wild.fault \/ ~env.tf_ok

RECURSIVE EnvSeqs(_, _)
EnvSeqs(depth_img, detections) ==
  IF detections = <<>> THEN { <<>> }
  ELSE { <<e>> \o rest :
           e \in EnvsOf(depth_img, Head(detections)),
           rest \in EnvSeqs(depth_img, Tail(detections)) }

\* envs[i] is not looked at once the handler has left, and the reads of one
\* invocation find the same intrinsics
Reached(envs) ==
  \A i \in 1..Len(envs) :
    /\ (\E j \in 1..(i - 1) : Leaves(envs[j])) => envs[i] = NoEnv
    /\ envs[i] = NoEnv \/ envs[i].wild.fault \/ envs[i].wild.k = envs[1].wild.k

DetectionInputs(rgb_img, depth_img) ==
  IF rgb_img = EmptyMat
  THEN { [detections |-> TwoDetections, envs |-> << NoEnv, NoEnv >>] }
  ELSE IF NoCalibrationAvailable(depth_img)
  THEN { [detections |-> ds, envs |-> [i \in 1..Len(ds) |-> NoEnv]] :
           ds \in { TwoDetections, << Detection("person", ScoreOne, 0) >> } }
  ELSE UNION { { [detections |-> ds, envs |-> es] :
                   es \in { e \in EnvSeqs(depth_img, ds) :
                              /\ Reached(e)
                              /\ Leaves(e[1]) => ds = TwoDetections /\ e[1].wild.k = NoWild.k } } :
                ds \in DetectionMsgs }

detectionCallback ==
  /\ ~terminated
  /\ \E in \in DetectionInputs(rgb_img_, depth_img_) :
     \E run \in { detectionRun(rgb_img_, depth_img_, in.detections, in.envs) } :
       /\ run.exact
       /\ candidates_' = run.candidates
       /\ terminated' = (run.status = "terminate")
       /\ Invoked("detectionCallback", in, run.trace, <<>>)
       /\ UNCHANGED << current_phase_, haveCalibration_, K_, rgb_img_, depth_img_,
                       best_candidate_, n_images_without_detection_, new_detection_,
                       has_ground_truth_, ground_truth_pose_msg_ >>

\* ------------------------------------------------------- pointCloudCallback

\* mutant: the second comparison is dropped
GatedOnlyVisualWithDepth(phase) ==
  phase = VISUAL_DETECTION_WITH_DEPTH

\* mutant: TOO_NEAR_TO_DETECT is let through
GatedButTooNear(phase) ==
  phase # ONLY_DEPTH_DETECTION /\ phase # TOO_NEAR_TO_DETECT

\* lines 245-246: the test that leaves the handler at once
Gated(phase) ==
  phase = VISUAL_DETECTION_WITH_DEPTH \/ phase # ONLY_DEPTH_DETECTION

\* What the environment answers while a cloud is handled: the three lookups
\* ("earth" <- header.frame_id with translation tf, base_frame_ <-
\* header.frame_id, "earth" <- base_frame_ with the vehicle's position), and
\* what a use of a null best_candidate_ gives: a fault that ends the process,
\* or reads of any position and writes that are lost.
CloudEnv(earth_ok, base_ok, tf, vehicle_ok, vehicle, fault, wild_point) ==
  [earth_ok |-> earth_ok, base_ok |-> base_ok, tf |-> tf, vehicle_ok |-> vehicle_ok,
   vehicle |-> vehicle, fault |-> fault, wild_point |-> wild_point]
WildPoints == { Vec(0, 0, 5) }
NoCloudEnv ==
  CloudEnv(TRUE, TRUE, CHOOSE t \in Translations : TRUE, TRUE,
           CHOOSE v \in VehiclePositions : TRUE, FALSE, CHOOSE w \in WildPoints : TRUE)

\* mutant: the lookup of base_frame_ is made outside the try block's reach
LookupFailedOnlyEarth(env) == ~env.earth_ok

\* lines 256-266: the lookups inside the try block
LookupFailed(env) == ~env.earth_ok \/ ~env.base_ok

\* lines 277-278
AllFinite(p) == IsFinite(p.x) /\ IsFinite(p.y) /\ IsFinite(p.z)
\* mutant: the radius of the sphere is doubled
InsideSphereWide(earthPoint, candidate_vec) ==
  ~(Norm2(earthPoint, candidate_vec) > (2 * FILTER_RADIUS) * (2 * FILTER_RADIUS))

\* mutant: a point at exactly 0.5 from the candidate is dropped
InsideSphereOpen(earthPoint, candidate_vec) ==
  Norm2(earthPoint, candidate_vec) < FILTER_RADIUS * FILTER_RADIUS

\* line 287: the point is kept unless (earthPoint - candidate_vec).norm() > 0.5
InsideSphere(earthPoint, candidate_vec) ==
  ~(Norm2(earthPoint, candidate_vec) > FILTER_RADIUS * FILTER_RADIUS)

\* lines 268-291: cloud_filtered, the points kept, in the "earth" frame
FilterCloud(cloud, earthTf, candidate_vec) ==
  LET points == PointsOf(cloud)
      earth == [i \in 1..Len(points) |-> Apply(earthTf, points[i])]
      Kept(p) == AllFinite(p) /\ InsideSphere(p, candidate_vec)
  IN SelectSeq(earth, Kept)

\* mutant: off by one, 19 points are enough
EnoughPointsOffByOne(n) == ~(n < MIN_POINTS - 1)

\* line 293: the handler goes on unless cloud_filtered has fewer than 20 points
EnoughPoints(n) == ~(n < MIN_POINTS)

\* mutant: >= in place of >, the last point of the greatest z
RECURSIVE MaxIdxLast(_, _, _)
MaxIdxLast(cloud, i, max_idx) ==
  IF i > Len(cloud) THEN max_idx
  ELSE IF max_idx = 0 \/ cloud[i].z >= cloud[max_idx].z
       THEN MaxIdxLast(cloud, i + 1, i)
       ELSE MaxIdxLast(cloud, i + 1, max_idx)

\* lines 229-236: the index of the first point of the greatest z
RECURSIVE MaxIdx(_, _, _)
MaxIdx(cloud, i, max_idx) ==
  IF i > Len(cloud) THEN max_idx
  ELSE IF max_idx = 0 \/ cloud[i].z > cloud[max_idx].z
       THEN MaxIdx(cloud, i + 1, i)
       ELSE MaxIdx(cloud, i + 1, max_idx)

\* lines 223-227
CountImage(n, new_detection) == IF ~new_detection THEN n + 1 ELSE 0

\* mutant: the comparison is turned around
TooNearTurnedAround(candidate_vec, vehicle) ==
  Norm2(candidate_vec, vehicle) > NEAR_DISTANCE * NEAR_DISTANCE

\* line 314
TooNear(candidate_vec, vehicle) ==
  Norm2(candidate_vec, vehicle) < NEAR_DISTANCE * NEAR_DISTANCE

\* The state of one run of pointCloudCallback.
CloudStart ==
  [phase |-> current_phase_, candidates |-> candidates_,
   n |-> n_images_without_detection_, trace |-> <<>>, status |-> "run", pub |-> <<>>]

\* mutant: the refinement moves every stored candidate, not the best one only
refineRunMovesAll(read, cloud_filtered, stamp, env) ==
  LET null == best_candidate_ = 0
      refined_point == cloud_filtered[MaxIdx(cloud_filtered, 1, 0)]
      updated ==
        [read EXCEPT
           !.n = CountImage(@, new_detection_),
           !.candidates =
             IF null THEN @ ELSE [i \in 1..Len(@) |-> [@[i] EXCEPT !.point = refined_point]],
           !.trace = Append(@, "assign: candidate from point cloud")]
      refined_vec == IF null THEN env.wild_point ELSE refined_point
  IN IF ~EnoughPoints(Len(cloud_filtered))
       THEN Leave(read, "return: too few points", "return")
     ELSE IF ~env.vehicle_ok
       THEN Leave(updated, "throw: TransformException", "terminate")
     ELSE IF TooNear(refined_vec, env.vehicle)
       THEN [Leave(updated, "assign: TOO_NEAR_TO_DETECT", "return")
               EXCEPT !.phase = TOO_NEAR_TO_DETECT]
     ELSE [Leave(updated, "publish: cloud_filtered", "return")
             EXCEPT !.pub = << [stamp |-> stamp, frame_id |-> "earth",
                                points |-> cloud_filtered] >>]

\* lines 293-328, for the points kept
refineRun(read, cloud_filtered, stamp, env) ==
  LET null == best_candidate_ = 0
      refined_point == cloud_filtered[MaxIdx(cloud_filtered, 1, 0)]
      updated ==
        [read EXCEPT
           !.n = CountImage(@, new_detection_),
           !.candidates = IF null THEN @ ELSE [@ EXCEPT ![best_candidate_].point = refined_point],
           !.trace = Append(@, "assign: candidate from point cloud")]
      refined_vec == IF null THEN env.wild_point ELSE refined_point
  IN IF ~EnoughPoints(Len(cloud_filtered))
       THEN Leave(read, "return: too few points", "return")
     ELSE IF ~env.vehicle_ok
       THEN Leave(updated, "throw: TransformException", "terminate")
     ELSE IF TooNear(refined_vec, env.vehicle)
       THEN [Leave(updated, "assign: TOO_NEAR_TO_DETECT", "return")
               EXCEPT !.phase = TOO_NEAR_TO_DETECT]
     ELSE [Leave(updated, "publish: cloud_filtered", "return")
             EXCEPT !.pub = << [stamp |-> stamp, frame_id |-> "earth",
                                points |-> cloud_filtered] >>]

\* lines 244-329
pointCloudRun(cloud, stamp, env) ==
  LET st == CloudStart
      null == best_candidate_ = 0
      readsBest == \E p \in { cloud.bulk, cloud.last } : AllFinite(Apply(env.tf, p))
      candidate_vec == IF null THEN env.wild_point ELSE getEigen(candidates_[best_candidate_])
      read == IF readsBest THEN Step(st, "read: best_candidate_") ELSE st
  IN IF Gated(current_phase_) THEN Leave(st, "return: phase", "return")
     ELSE IF LookupFailed(env) THEN Leave(st, "catch: TransformException", "return")
     ELSE IF null /\ readsBest /\ env.fault
       THEN Leave(read, "fault: null best_candidate_", "terminate")
     ELSE refineRun(read, FilterCloud(cloud, env.tf, candidate_vec), stamp, env)

\* The clouds and answers that make a difference in the present state: a
\* handler that leaves before it looks at the points is given one cloud, and a
\* lookup or a read it does not reach is given one answer.
SomeCloud == Cloud(Vec(0, 0, 4), Vec(0, 0, 8))
CloudInputs ==
  IF Gated(current_phase_)
  THEN { [cloud |-> SomeCloud, stamp |-> s, env |-> NoCloudEnv] : s \in Stamps }
  ELSE { [cloud |-> SomeCloud, stamp |-> s, env |-> e] :
           s \in Stamps,
           e \in { [NoCloudEnv EXCEPT !.earth_ok = FALSE],
                    [NoCloudEnv EXCEPT !.base_ok = FALSE] } }
       \cup { [cloud |-> SomeCloud, stamp |-> s, env |-> [NoCloudEnv EXCEPT !.fault = TRUE]] :
                s \in IF best_candidate_ = 0 THEN Stamps ELSE {} }
       \cup { [cloud |-> c, stamp |-> s,
               env |-> CloudEnv(TRUE, TRUE, tf, vok, v, FALSE, w)] :
                c \in Clouds, s \in Stamps,
                tf \in Translations, vok \in BOOLEAN, v \in VehiclePositions,
                w \in IF best_candidate_ = 0 THEN WildPoints ELSE { NoCloudEnv.wild_point } }

pointCloudCallback ==
  /\ ~terminated
  /\ \E in \in CloudInputs :
     \E run \in { pointCloudRun(in.cloud, in.stamp, in.env) } :
       /\ ~in.env.vehicle_ok => run.status = "terminate"
       /\ run.n <= MaxImagesWithoutDetection
       /\ current_phase_' = run.phase
       /\ candidates_' = run.candidates
       /\ n_images_without_detection_' = run.n
       /\ terminated' = (run.status = "terminate")
       /\ Invoked("pointCloudCallback", in, run.trace, run.pub)
       /\ UNCHANGED << haveCalibration_, K_, rgb_img_, depth_img_, best_candidate_,
                       new_detection_, has_ground_truth_, ground_truth_pose_msg_ >>

\* ------------------------------------- handlers declared in depthtection.hpp

\* phaseCallback: the outside trigger that takes the node from
\* VISUAL_DETECTION_WITH_DEPTH to ONLY_DEPTH_DETECTION
phaseCallback ==
  /\ ~terminated
  /\ current_phase_' =
       IF current_phase_ = VISUAL_DETECTION_WITH_DEPTH THEN ONLY_DEPTH_DETECTION
       ELSE current_phase_
  /\ Invoked("phaseCallback", [data |-> ONLY_DEPTH_DETECTION], <<>>, <<>>)
  /\ UNCHANGED << haveCalibration_, K_, rgb_img_, depth_img_, candidates_,
                  best_candidate_, n_images_without_detection_, new_detection_,
                  has_ground_truth_, ground_truth_pose_msg_, terminated >>

\* imagesAndDetectionCallback: the handler of a synchronized colour frame,
\* depth frame and detection message, after the data flow of the design: each
\* detection of the target class is projected with the depth at its centre
\* pixel, taken to "earth", and matched or stored; the best candidate is then
\* designated.  Without a camera model, or when the lookup of the transform
\* fails, the message is dropped; a centre pixel outside the depth frame and a
\* sample that is no measurement are skipped.
synchronizedBody(st, depth, detection, tf) ==
  IF detection.class_id # target_detection_ THEN st
  ELSE IF ~InMap(depth, detection.center_x) THEN Step(st, "skip: out of bounds")
  ELSE IF NoMeasurement(DepthAt(depth, detection.center_x, 0))
    THEN Step(st, "skip: no measurement")
  ELSE MatchOrCreate(Step(st, "info: Detection"), detection,
                     Apply(tf, get_point_from_depth(DepthAt(depth, detection.center_x, 0),
                                                    detection.center_x, K_[1])))

RECURSIVE synchronizedLoop(_, _, _, _)
synchronizedLoop(st, depth, detections, tf) ==
  IF detections = <<>> THEN st
  ELSE synchronizedLoop(synchronizedBody(st, depth, Head(detections), tf),
                        depth, Tail(detections), tf)

synchronizedRun(depth, detections, tf_ok, tf) ==
  IF K_ = EmptyMat
  THEN Leave(Start(candidates_), "return: No camera calibration available", "return")
  ELSE IF ~tf_ok THEN Leave(Start(candidates_), "catch: TransformException", "return")
  ELSE synchronizedLoop(Start(candidates_), depth, detections, tf)

\* the messages and answers that make a difference in the present state
SynchronizedInputs ==
  IF K_ = EmptyMat
  THEN { [image |-> img, depth |-> depth, detections |-> TwoDetections,
          tf_ok |-> TRUE, tf |-> NoEnv.tf] : img \in RgbFrames, depth \in DepthFrames }
  ELSE { [image |-> img, depth |-> depth, detections |-> TwoDetections,
          tf_ok |-> FALSE, tf |-> NoEnv.tf] : img \in RgbFrames, depth \in DepthFrames }
       \cup { [image |-> img, depth |-> depth, detections |-> ds, tf_ok |-> TRUE, tf |-> tf] :
                img \in RgbFrames, depth \in DepthFrames, ds \in DetectionMsgs,
                tf \in Translations }

imagesAndDetectionCallback ==
  /\ ~terminated
  /\ \E in \in SynchronizedInputs :
     \E run \in { synchronizedRun(in.depth, in.detections, in.tf_ok, in.tf) } :
       /\ run.exact
       /\ candidates_' = run.candidates
       /\ best_candidate_' = selectBestCandidate(run.candidates)
       /\ Invoked("imagesAndDetectionCallback", in, run.trace, <<>>)
       /\ UNCHANGED << current_phase_, haveCalibration_, K_, rgb_img_, depth_img_,
                       n_images_without_detection_, new_detection_, has_ground_truth_,
                       ground_truth_pose_msg_, terminated >>

\* ------------------------------------------------------------ the system

Next ==
  \/ rgbImageCallback
  \/ depthImageCallback
  \/ cameraInfoCallback
  \/ groundTruthCallback
  \/ detectionCallback
  \/ pointCloudCallback
  \/ phaseCallback
  \/ imagesAndDetectionCallback

Spec == Init /\ [][Next]_vars

\* ------------------------------------------------------------- properties

\* the points of the cloud of message m that are finite and inside the sphere
\* around the position vec, in the "earth" frame
Survivors(m, vec) == FilterCloud(m.cloud, m.env.tf, vec)

\* the first of the points of the greatest z
FirstHighest(points) ==
  CHOOSE i \in 1..Len(points) :
    /\ \A j \in 1..Len(points) : points[j].z <= points[i].z
    /\ \A j \in 1..(i - 1) : points[j].z < points[i].z

\* C1: in every phase other than ONLY_DEPTH_DETECTION, handling a point cloud
\* leaves the phase, the candidate store, the best candidate and the counter
\* of images without detection as they were, and publishes no filtered cloud.
C1_GatedCloudIsNoOp ==
  [][ (handler' = "pointCloudCallback" /\ current_phase_ # ONLY_DEPTH_DETECTION)
        => /\ UNCHANGED << current_phase_, candidates_, best_candidate_,
                           n_images_without_detection_ >>
           /\ cloud_filtered_pub' = <<>>
           /\ ~terminated' ]_vars

\* a cloud was handled in NO_DETECTION while a best candidate was designated
C1_Witness ==
  /\ handler = "pointCloudCallback"
  /\ current_phase_ = NO_DETECTION
  /\ best_candidate_ # 0
  /\ candidates_ # <<>>
  /\ cloud_filtered_pub = <<>>

\* C2: once the phase is TOO_NEAR_TO_DETECT it is TOO_NEAR_TO_DETECT after
\* every handler invocation, and a point cloud handled from then on refines no
\* candidate: the handler leaves at its first test.
C2_TooNearIsAbsorbing ==
  [][ current_phase_ = TOO_NEAR_TO_DETECT
        => /\ current_phase_' = TOO_NEAR_TO_DETECT
           /\ handler' = "pointCloudCallback"
                => /\ candidates_' = candidates_
                   /\ n_images_without_detection_' = n_images_without_detection_
                   /\ trace' = << "return: phase" >> ]_vars

\* a cloud was handled in TOO_NEAR_TO_DETECT after a refinement had counted an
\* image: the phase was ONLY_DEPTH_DETECTION before, so the transition was taken
C2_Witness ==
  /\ handler = "pointCloudCallback"
  /\ trace = << "return: phase" >>
  /\ current_phase_ = TOO_NEAR_TO_DETECT
  /\ n_images_without_detection_ > 0
  /\ best_candidate_ # 0

\* C3, as stated: a point cloud handled in ONLY_DEPTH_DETECTION while the
\* vehicle (its position in "earth" being known) is within 0.5 of the best
\* candidate's position leaves the phase TOO_NEAR_TO_DETECT.
C3_NearVehicleEndsDetection ==
  [][ (/\ handler' = "pointCloudCallback"
       /\ current_phase_ = ONLY_DEPTH_DETECTION
       /\ best_candidate_ # 0
       /\ msg'.env.vehicle_ok
       /\ Norm2(getEigen(candidates_[best_candidate_]), msg'.env.vehicle)
            <= NEAR_DISTANCE * NEAR_DISTANCE)
        => current_phase_' = TOO_NEAR_TO_DETECT ]_vars

\* C3, amended: a point cloud handled in ONLY_DEPTH_DETECTION, with the three
\* lookups answered, at least 20 points kept around the designated best
\* candidate, and the vehicle nearer than 0.5 to the refined position (the first
\* of the highest points kept), leaves the phase TOO_NEAR_TO_DETECT.
C3_NearRefinedCandidateEndsDetection ==
  [][ (/\ handler' = "pointCloudCallback"
       /\ current_phase_ = ONLY_DEPTH_DETECTION
       /\ best_candidate_ # 0
       /\ msg'.env.earth_ok /\ msg'.env.base_ok /\ msg'.env.vehicle_ok
       /\ \E kept \in { Survivors(msg', getEigen(candidates_[best_candidate_])) } :
            /\ Len(kept) >= MIN_POINTS
            /\ Norm2(kept[FirstHighest(kept)], msg'.env.vehicle)
                 < NEAR_DISTANCE * NEAR_DISTANCE)
        => current_phase_' = TOO_NEAR_TO_DETECT /\ ~terminated' ]_vars

\* a cloud took the phase to TOO_NEAR_TO_DETECT after refining the designated
\* best candidate
C3_Witness ==
  /\ handler = "pointCloudCallback"
  /\ best_candidate_ # 0
  /\ current_phase_ = TOO_NEAR_TO_DETECT
  /\ trace = << "read: best_candidate_", "assign: candidate from point cloud",
                "assign: TOO_NEAR_TO_DETECT" >>

\* C4: a point cloud handled in ONLY_DEPTH_DETECTION, with the lookups of the
\* try block answered and a best candidate designated: with fewer than 20
\* points kept, the candidates and the phase are left as they were and nothing
\* is published; with 20 or more, the best candidate is at the first of the
\* highest points kept.
C4_MinimumSupport ==
  [][ (/\ handler' = "pointCloudCallback"
       /\ current_phase_ = ONLY_DEPTH_DETECTION
       /\ best_candidate_ # 0
       /\ msg'.env.earth_ok /\ msg'.env.base_ok)
        => \A kept \in { Survivors(msg', getEigen(candidates_[best_candidate_])) } :
             IF Len(kept) < MIN_POINTS
             THEN /\ UNCHANGED << candidates_, current_phase_ >>
                  /\ cloud_filtered_pub' = <<>>
             ELSE getEigen(candidates_'[best_candidate_]) = kept[FirstHighest(kept)] ]_vars

\* a cloud of which exactly 19 points were kept was handled
C4_Witness ==
  /\ handler = "pointCloudCallback"
  /\ current_phase_ = ONLY_DEPTH_DETECTION
  /\ best_candidate_ # 0
  /\ msg.env.earth_ok /\ msg.env.base_ok
  /\ Len(Survivors(msg, getEigen(candidates_[best_candidate_]))) = MIN_POINTS - 1
  /\ trace = << "read: best_candidate_", "return: too few points" >>

\* C5: a point cloud handled in ONLY_DEPTH_DETECTION while the lookup of
\* "earth" or the lookup of base_frame_ from the cloud's frame fails leaves the
\* phase, the candidates, the best candidate and the counter as they were,
\* publishes nothing and ends the handler normally.
C5_FailedLookupLeavesState ==
  [][ (/\ handler' = "pointCloudCallback"
       /\ current_phase_ = ONLY_DEPTH_DETECTION
       /\ (~msg'.env.earth_ok \/ ~msg'.env.base_ok))
        => /\ UNCHANGED << current_phase_, candidates_, best_candidate_,
                           n_images_without_detection_ >>
           /\ cloud_filtered_pub' = <<>>
           /\ ~terminated' ]_vars

\* a cloud was handled while the lookup of base_frame_ failed
C5_Witness ==
  /\ handler = "pointCloudCallback"
  /\ current_phase_ = ONLY_DEPTH_DETECTION
  /\ best_candidate_ # 0
  /\ msg.env.earth_ok /\ ~msg.env.base_ok
  /\ trace = << "catch: TransformException" >>

\* the handler invoked last made a lookup of a transform that failed
LookupFailure ==
  \/ /\ handler = "pointCloudCallback"
     /\ trace # << "return: phase" >>
     /\ \/ ~msg.env.earth_ok
        \/ ~msg.env.base_ok
        \/ /\ "assign: candidate from point cloud" \in Range(trace)
           /\ ~msg.env.vehicle_ok
  \/ /\ handler = "detectionCallback"
     /\ \E i \in 1..Len(msg.envs) : ~msg.envs[i].tf_ok

\* C6: no failed lookup of a transform ends the process: the handler that made
\* the lookup (detectionCallback, or pointCloudCallback, the lookup of the
\* vehicle after the refinement included) has returned normally.
C6_NoLookupFailureEscapes ==
  LookupFailure => ~terminated

\* C7: whenever pointCloudCallback reads the best candidate, the best candidate
\* is designated and is one of the candidates of the store.
C7_BestCandidateDesignatedWhenRead ==
  (handler = "pointCloudCallback" /\ "read: best_candidate_" \in Range(trace))
    => best_candidate_ \in 1..Len(candidates_)

\* the number of detections a run matched-and-updated or stored
StoreSteps(steps) ==
  Cardinality({ i \in 1..Len(steps) :
                  steps[i] \in { "emplace_back: New candidate", "assign: Update candidate" } })

\* C8: a detection whose depth sample at the centre pixel is 0 or infinity is
\* discarded by detectionCallback: it stores no candidate and changes none.
C8_SentinelIsDiscarded ==
  [][ (/\ handler' = "detectionCallback"
       /\ Len(msg'.detections) = 1
       /\ "read: depth_img" \in Range(trace')
       /\ ~terminated'
       /\ NoMeasurement(DepthAt(depth_img_, msg'.detections[1].center_x,
                                msg'.envs[1].wild.depth)))
        => candidates_' = candidates_ /\ StoreSteps(trace') = 0 ]_vars

\* C9: detectionCallback invoked while no colour frame, no depth frame or no
\* calibration has been received stores no candidate, changes none and reads
\* no depth sample; the candidates, the best candidate and the phase are left
\* as they were.
C9_NoDataNoCandidate ==
  [][ (/\ handler' = "detectionCallback"
       /\ (rgb_img_ = EmptyMat \/ depth_img_ = EmptyMat \/ K_ = EmptyMat))
        => /\ UNCHANGED << candidates_, best_candidate_, current_phase_ >>
           /\ "read: depth_img" \notin Range(trace')
           /\ ~terminated' ]_vars

\* C10: detectionCallback invoked with a colour frame, a depth frame and the
\* calibration received, for detections of the target class whose centre
\* pixels hold valid depths and while the lookup of "earth" is answered,
\* matches-and-updates or stores one candidate for each detection.
C10_DetectionReachesTheStore ==
  [][ (/\ handler' = "detectionCallback"
       /\ rgb_img_ # EmptyMat /\ depth_img_ # EmptyMat /\ K_ # EmptyMat
       /\ \A i \in 1..Len(msg'.detections) :
            /\ msg'.detections[i].class_id = target_detection_
            /\ InMap(depth_img_, msg'.detections[i].center_x)
            /\ ~NoMeasurement(depth_img_[msg'.detections[i].center_x + 1])
            /\ msg'.envs[i].tf_ok)
        => StoreSteps(trace') = Len(msg'.detections) ]_vars

\* the global-frame point detectionCallback computes for one detection from
\* the depth sample at the centre pixel, the calibration and the transform
ObservedPoint(depth_img, detection, env) ==
  Apply(env.tf,
        get_point_from_depth(DepthAt(depth_img, detection.center_x, env.wild.depth),
                             detection.center_x,
                             IF K_ = EmptyMat THEN env.wild.k ELSE K_[1]))

\* the candidates of class c closer than the match threshold to a point
WithinThreshold(candidates, c, point) ==
  { i \in 1..Len(candidates) :
      /\ candidates[i].class_name = c
      /\ Norm2(candidates[i].point, point) < MATCH_THRESHOLD * MATCH_THRESHOLD }

\* C11: when the one detection of a message reaches the matcher and its
\* global-frame point lies within the match threshold of a stored candidate of
\* its class, the number of candidates stays the same, exactly one candidate
\* within the threshold is changed, its confidence becomes
\* (old confidence + score) / 2 and its position becomes the observed point.
C11_MatchUpdate ==
  [][ (/\ handler' = "detectionCallback"
       /\ Len(msg'.detections) = 1
       /\ StoreSteps(trace') = 1)
        => \A obs \in { ObservedPoint(depth_img_, msg'.detections[1], msg'.envs[1]) } :
           \A near \in { WithinThreshold(candidates_, msg'.detections[1].class_id, obs) } :
             near # {}
               => /\ Len(candidates_') = Len(candidates_)
                  /\ \E i \in near :
                       /\ 2 * candidates_'[i].confidence
                            = candidates_[i].confidence + msg'.detections[1].score
                       /\ candidates_'[i].point = obs
                       /\ candidates_'[i].id = candidates_[i].id
                       /\ candidates_'[i].class_name = candidates_[i].class_name
                       /\ \A j \in 1..Len(candidates_) :
                            j # i => candidates_'[j] = candidates_[j] ]_vars

\* C11 witness: a message with one detection has updated the stored candidate:
\* its confidence is the average of two different scores, and its position is
\* the observed point
C11_Witness ==
  /\ handler = "detectionCallback"
  /\ Len(msg.detections) = 1
  /\ "assign: Update candidate" \in Range(trace)
  /\ Len(candidates_) = 1
  /\ msg.detections[1].score = ScoreOne \div 2
  /\ 2 * candidates_[1].confidence = ScoreOne + ScoreOne \div 2
  /\ candidates_[1].point = ObservedPoint(depth_img_, msg.detections[1], msg.envs[1])

\* C12: an observation farther than the match threshold from every stored
\* candidate of its class is stored as a new candidate whose id is the next
\* integer; the ids of the stored candidates are pairwise distinct (the i-th
\* stored candidate has id i), no step changes the id of a stored candidate
\* and no step removes a candidate from the store.
C12_CreateOnMissUniqueIds ==
  [][ /\ Len(candidates_') >= Len(candidates_)
      /\ \A i \in 1..Len(candidates_) : candidates_'[i].id = candidates_[i].id
      /\ \A i \in 1..Len(candidates_') : candidates_'[i].id = i
      /\ \A i, j \in 1..Len(candidates_') :
           i # j => candidates_'[i].id # candidates_'[j].id
      /\ (/\ handler' = "detectionCallback"
          /\ Len(msg'.detections) = 1
          /\ StoreSteps(trace') = 1)
           => \A obs \in { ObservedPoint(depth_img_, msg'.detections[1], msg'.envs[1]) } :
                WithinThreshold(candidates_, msg'.detections[1].class_id, obs) = {}
                  => /\ Len(candidates_') = Len(candidates_) + 1
                     /\ candidates_'[Len(candidates_')]
                          = Candidate(Len(candidates_) + 1, msg'.detections[1].score,
                                      msg'.detections[1].class_id, obs)
                     /\ \A j \in 1..Len(candidates_) : candidates_'[j] = candidates_[j] ]_vars

\* C12 witness: two candidates are stored, the second one created by a
\* detection farther than the match threshold from the first; their ids are
\* 1 and 2
C12_Witness ==
  /\ handler = "detectionCallback"
  /\ "emplace_back: New candidate" \in Range(trace)
  /\ Len(candidates_) = 2
  /\ candidates_[1].id = 1 /\ candidates_[2].id = 2
  /\ candidates_[1].class_name = candidates_[2].class_name
  /\ ~(Norm2(candidates_[1].point, candidates_[2].point) < MATCH_THRESHOLD * MATCH_THRESHOLD)

\* C13: the first calibration message handled (none was stored before) stores
\* its intrinsics and sets haveCalibration_; every later calibration message
\* leaves the stored calibration as it was, whatever the message holds.
C13_CalibrationSetOnce ==
  [][ handler' = "cameraInfoCallback"
        => IF K_ = EmptyMat
           THEN K_' = << msg'.k >> /\ haveCalibration_'
           ELSE K_' = K_ /\ haveCalibration_' = haveCalibration_ ]_vars

\* C14: a detection message during which a lookup of "earth" fails leaves the
\* candidates as they were before the message: no earlier detection of the
\* same message has stored or updated a candidate.
C14_FailedLookupDropsWholeMessage ==
  [][ (/\ handler' = "detectionCallback"
       /\ "catch: TransformException" \in Range(trace'))
        => candidates_' = candidates_ /\ StoreSteps(trace') = 0 ]_vars

\* C15: detectionCallback never reads the depth map at a pixel outside of it
\* (an empty map has no pixel inside): a detection whose centre pixel lies
\* outside the map is rejected without a read, the handler returns and the
\* candidates are left as they were.
C15_OutOfBoundsGuard ==
  [][ (/\ handler' = "detectionCallback"
       /\ Len(msg'.detections) = 1
       /\ ~InMap(depth_img_, msg'.detections[1].center_x))
        => /\ "read: depth_img" \notin Range(trace')
           /\ candidates_' = candidates_
           /\ ~terminated' ]_vars

\* C16: after construction and before any message is handled the phase is
\* NO_DETECTION, no candidate is stored and no calibration is held.
C16_InitialState ==
  handler = "constructor"
    => /\ current_phase_ = NO_DETECTION
       /\ candidates_ = <<>>
       /\ ~haveCalibration_

\* the cloud whose points all reach the same height in "earth", the first 19
\* of them apart from the last
LevelCloud == Cloud(Vec(3, 0, 8), Vec(0, 0, 8))

\* C17: after a point cloud has refined the designated best candidate, the
\* candidate's position is one of the points kept, no point kept is higher
\* (greater z), and every point kept before it in cloud order is lower: of
\* several highest points the first is taken.
C17_MaximumElevation ==
  [][ (/\ handler' = "pointCloudCallback"
       /\ best_candidate_ # 0
       /\ "assign: candidate from point cloud" \in Range(trace'))
        => \A kept \in { Survivors(msg', getEigen(candidates_[best_candidate_])) } :
           \E i \in 1..Len(kept) :
             /\ getEigen(candidates_'[best_candidate_]) = kept[i]
             /\ \A j \in 1..Len(kept) : kept[j].z <= kept[i].z
             /\ \A j \in 1..(i - 1) : kept[j].z < kept[i].z ]_vars

\* C17 witness: a cloud of 20 points of the same height has refined the best
\* candidate, which is now at the first of them and not at the last
C17_Witness ==
  /\ handler = "pointCloudCallback"
  /\ best_candidate_ # 0
  /\ "assign: candidate from point cloud" \in Range(trace)
  /\ msg.cloud = LevelCloud
  /\ getEigen(candidates_[best_candidate_]) = Apply(msg.env.tf, LevelCloud.bulk)
  /\ getEigen(candidates_[best_candidate_]) # Apply(msg.env.tf, LevelCloud.last)

\* the region of interest of the design: the points of the cloud of message m,
\* in the "earth" frame, whose coordinates are all finite and whose distance to
\* the position vec is at most 0.5, in cloud order
RegionOfInterest(m, vec) ==
  LET points == PointsOf(m.cloud)
      earth == [i \in 1..Len(points) |-> Apply(m.env.tf, points[i])]
      Inside(p) ==
        /\ p.x # FLT_INF /\ p.y # FLT_INF /\ p.z # FLT_INF
        /\ Norm2(p, vec) <= FILTER_RADIUS * FILTER_RADIUS
  IN SelectSeq(earth, Inside)

C19_RefinementPublishes ==
  [][ (/\ handler' = "pointCloudCallback"
       /\ best_candidate_ # 0
       /\ "assign: candidate from point cloud" \in Range(trace')
       /\ ~terminated')
        => cloud_filtered_pub'
             = << [stamp |-> msg'.stamp, frame_id |-> "earth",
                   points |-> Survivors(msg', getEigen(candidates_[best_candidate_]))] >> ]_vars

C21_HandlerFrames ==
  [][ /\ handler' \in { "detectionCallback", "cameraInfoCallback", "groundTruthCallback" }
           => current_phase_' = current_phase_
      /\ handler' = "pointCloudCallback"
           => /\ Len(candidates_') = Len(candidates_)
              /\ \A i \in 1..Len(candidates_) :
                   /\ candidates_'[i].id = candidates_[i].id
                   /\ candidates_'[i].confidence = candidates_[i].confidence
                   /\ candidates_'[i].class_name = candidates_[i].class_name
                   /\ i # best_candidate_ => candidates_'[i].point = candidates_[i].point
      /\ handler' = "groundTruthCallback"
           => UNCHANGED << candidates_, best_candidate_ >> ]_vars

\* C21 witness: a cloud has refined the best candidate while another candidate
\* was stored, at another place than the best one
C21_Witness ==
  /\ handler = "pointCloudCallback"
  /\ "assign: candidate from point cloud" \in Range(trace)
  /\ best_candidate_ # 0
  /\ Len(candidates_) = 2
  /\ \E i \in 1..Len(candidates_) :
       i # best_candidate_ /\ candidates_[i].point # candidates_[best_candidate_].point

C23_TargetClassFilter ==
  [][ handler' = "detectionCallback"
        => /\ (\A i \in 1..Len(msg'.detections) :
                 msg'.detections[i].class_id # target_detection_)
                => /\ candidates_' = candidates_
                   /\ "info: Detection" \notin Range(trace')
                   /\ "read: depth_img" \notin Range(trace')
                   /\ StoreSteps(trace') = 0
                   /\ ~terminated'
           /\ \A i \in 1..Len(candidates_') :
                (i > Len(candidates_) \/ candidates_'[i] # candidates_[i])
                  => candidates_'[i].class_name = target_detection_ ]_vars

\* C23 witness: a detection of another class was handled while a colour frame
\* was held, the test of line 128 would have let a detection through, the
\* lookup of "earth" was answered and a candidate was stored; no step was taken
C23_Witness ==
  /\ handler = "detectionCallback"
  /\ Len(msg.detections) = 1
  /\ msg.detections[1].class_id # target_detection_
  /\ rgb_img_ # EmptyMat
  /\ ~NoCalibrationAvailable(depth_img_)
  /\ msg.envs[1].tf_ok
  /\ candidates_ # <<>>
  /\ trace = <<>>

====
